---- MODULE Spec2Model ----
(***************************************************************************)
(* A model of toggl_connect: the dataset Logger (logger.py), the Toggl API *)
(* client (toggl_api.py) and the entry routine (main.py).                  *)
(*                                                                         *)
(* A Python dict is modelled as the sequence of its items <<key, value>>   *)
(* in insertion order, with pairwise distinct keys.  A key is a record     *)
(* [t |-> type, v |-> payload]; the key pools never hold two keys that     *)
(* Python treats as equal (False and 0, True and 1).  A JSON object is the *)
(* sequence of its members <<name, value>>, names being plain strings.     *)
(***************************************************************************)
EXTENDS Integers, Sequences, FiniteSets, TLC

VARIABLES
    \* ---- Logger.compare_dicts called directly
    original_dict,   \* the dict passed as original_dict (mutated in place)
    new_dict,        \* the dict passed as new_dict
    orig_in,         \* original_dict as it was before the first call
    once,            \* the dict returned by the first call
    mpc,             \* "in" | "once" | "twice": calls made so far
    \* ---- Logger.convert_list_of_dicts_to_dict called directly
    list_of_dicts,   \* the argument list_of_dicts
    key_name,        \* the argument key_name
    conv_out,        \* the dict returned
    conv_err,        \* "" or the exception raised
    cpc,             \* "in" | "done"
    \* ---- Logger.log called on one path
    file,            \* the dataset file: [kind, obj]
    prev_file,       \* the file as it was before the last call of log
    last_data,       \* the data of the last call of log
    prev_data,       \* the data of the call before it
    log_raised,      \* "" or the exception the last call raised
    lpc,             \* "none" | "one" | "two": calls of log so far (two: two or more)
    \* ---- BaseAPI.get_workspace_id_from_name
    ws_resp,         \* the response to GET me/workspaces
    workspace_name,  \* the argument workspace_name
    ws_result,       \* [raised, id]: the exception raised ("" if none), the id returned
    wpc,             \* "in" | "done"
    \* ---- the HTTP exchanges of the client's operations
    http,            \* the exchanges of the last operation, in order
    op_raised,       \* "" or the exception the last operation raised
    op_in,           \* the arguments and responses of the last operation
    hpc,             \* the last operation
    \* ---- TogglProjectAPI: the project cache and create_generic_project
    projects,              \* self.projects: lower-cased name -> project
    new_project_template,  \* self.new_project_template
    posted,                \* the create calls made (POST workspaces/<id>/projects)
    proj_return,           \* what the last operation returned or raised
    ppc,                   \* "ready" once the client is constructed
    \* ---- main.log_toggl_time_entries
    rpc,             \* the step the run is at, "done" or "aborted"
    run_file,        \* the file time_entries.json under DATASET_PATH
    run_file0,       \* the file as it was when the run started
    run_ok,          \* the steps that succeeded
    run_raised,      \* "" or the exception that ended the run
    time_entries,    \* the time entries fetched
    standard_time_entries  \* the dict made of them

mergeVars == <<original_dict, new_dict, orig_in, once, mpc>>
convVars == <<list_of_dicts, key_name, conv_out, conv_err, cpc>>
logVars == <<file, prev_file, last_data, prev_data, log_raised, lpc>>
wsVars == <<ws_resp, workspace_name, ws_result, wpc>>
httpVars == <<http, op_raised, op_in, hpc>>
projVars == <<projects, new_project_template, posted, proj_return, ppc>>
apiVars == <<wsVars, httpVars, projVars>>
runVars == <<rpc, run_file, run_file0, run_ok, run_raised, time_entries,
             standard_time_entries>>
vars == <<mergeVars, convVars, logVars, apiVars, runVars>>

----------------------------------------------------------------------------
(* Bounds *)

MaxOrig == 2     \* items in the dict given as original_dict
MaxNew == 2      \* items in a dict given as new data
MaxRecs == 3     \* records in the list given to convert_list_of_dicts_to_dict
MaxFile == 1     \* members of the dataset file before the first call of log
MaxWs == 2       \* workspaces in the response to GET me/workspaces
MaxTags == 2     \* tags in the response to GET workspaces/<id>/tags
MaxProj == 2     \* projects in the response to GET workspaces/<id>/projects
MaxPosts == 2    \* create calls recorded in posted

----------------------------------------------------------------------------
(* Python values *)

KInt(n) == [t |-> "int", v |-> n]
KStr(s) == [t |-> "str", v |-> s]
KBool(b) == [t |-> "bool", v |-> b]

Digit == <<"0", "1", "2", "3", "4", "5", "6", "7", "8", "9">>

RECURSIVE IntStr(_)
IntStr(n) == IF n < 10 THEN Digit[n + 1] ELSE IntStr(n \div 10) \o Digit[(n % 10) + 1]

\* str(key) of logger.py line 38
str(key) ==
    CASE key.t = "str" -> key
      [] key.t = "int" -> KStr(IntStr(key.v))
      [] key.t = "bool" -> KStr(IF key.v THEN "True" ELSE "False")

\* the keys and values the datasets are drawn from
NewKeys == {KInt(1), KStr("1"), KBool(FALSE), KStr("False")}
OrigKeys == {KStr("1"), KStr("False"), KInt(1)}
Values == {"a", "b"}

SeqsUpTo(S, n) == UNION {[1..m -> S] : m \in 0..n}

\* the dicts with keys in K, values in V and at most n items
Dicts(K, V, n) ==
    {d \in SeqsUpTo(K \X V, n) :
        \A i, j \in DOMAIN d : i # j => d[i][1] # d[j][1]}

\* dict operations: keys(), key in d, d[key], d[key] = value
DictKeys(d) == {d[i][1] : i \in DOMAIN d}
Has(d, key) == key \in DictKeys(d)
Get(d, key) == d[CHOOSE i \in DOMAIN d : d[i][1] = key][2]
SetItem(d, key, value) ==
    IF Has(d, key)
    THEN [i \in DOMAIN d |-> IF d[i][1] = key THEN <<d[i][1], value>> ELSE d[i]]
    ELSE Append(d, <<key, value>>)

\* dict equality (==): the same items, in any order
DictEq(d, e) == {d[i] : i \in DOMAIN d} = {e[i] : i \in DOMAIN e}

----------------------------------------------------------------------------
(* Logger.compare_dicts *)

\* one iteration of the loop of compare_dicts
compare_step(d, item) ==
    LET key == str(item[1])
        value == item[2]
    IN  IF ~Has(d, key) \/ Get(d, key) # value
        THEN SetItem(d, key, value)
        ELSE d

RECURSIVE compare_loop(_, _, _)
compare_loop(d, new, i) ==
    IF i > Len(new) THEN d
    ELSE compare_loop(compare_step(d, new[i]), new, i + 1)

\* mutant: only absent keys are added, a differing value is not overwritten
RECURSIVE compare_loop_absent(_, _, _)
compare_loop_absent(d, new, i) ==
    IF i > Len(new) THEN d
    ELSE compare_loop_absent(
            IF ~Has(d, str(new[i][1])) THEN SetItem(d, str(new[i][1]), new[i][2]) ELSE d,
            new, i + 1)

compare_dicts_absent_only(original, new) == compare_loop_absent(original, new, 1)

\* mutant: the return statement sits inside the if, so the loop stops at the
\* first item it writes
RECURSIVE compare_loop_return(_, _, _)
compare_loop_return(d, new, i) ==
    IF i > Len(new) THEN d
    ELSE IF compare_step(d, new[i]) # d THEN compare_step(d, new[i])
    ELSE compare_loop_return(d, new, i + 1)

compare_dicts_early_return(original, new) == compare_loop_return(original, new, 1)

compare_dicts(original, new) == compare_loop(original, new, 1)

----------------------------------------------------------------------------
(* The variables of the parts a specification does not exercise *)

IdleConvert ==
    /\ list_of_dicts = <<>>
    /\ key_name = ""
    /\ conv_out = <<>>
    /\ conv_err = ""
    /\ cpc = "idle"

NoFile == [kind |-> "absent", obj |-> <<>>]

IdleLog ==
    /\ file = NoFile
    /\ prev_file = NoFile
    /\ last_data = <<>>
    /\ prev_data = <<>>
    /\ log_raised = ""
    /\ lpc = "idle"

NoResponse == [kind |-> "none", status |-> 0, text |-> "", body |-> <<>>]

IdleWs ==
    /\ ws_resp = NoResponse
    /\ workspace_name = ""
    /\ ws_result = [raised |-> "", id |-> 0]
    /\ wpc = "idle"

IdleHttp ==
    /\ http = <<>>
    /\ op_raised = ""
    /\ op_in = <<>>
    /\ hpc = "idle"

IdleProj ==
    /\ projects = <<>>
    /\ new_project_template = <<>>
    /\ posted = <<>>
    /\ proj_return = ""
    /\ ppc = "idle"

IdleApi == IdleWs /\ IdleHttp /\ IdleProj

IdleRun ==
    /\ rpc = "idle"
    /\ run_file = NoFile
    /\ run_file0 = NoFile
    /\ run_ok = {}
    /\ run_raised = ""
    /\ time_entries = <<>>
    /\ standard_time_entries = <<>>

----------------------------------------------------------------------------
(* Specification SpecMerge: compare_dicts applied to arbitrary dicts, twice *)

IdleMerge ==
    /\ original_dict = <<>>
    /\ new_dict = <<>>
    /\ orig_in = <<>>
    /\ once = <<>>
    /\ mpc = "idle"

InitMerge ==
    /\ IdleRun
    /\ IdleConvert
    /\ IdleLog
    /\ IdleApi
    /\ original_dict \in Dicts(OrigKeys, Values, MaxOrig)
    /\ new_dict \in Dicts(NewKeys, Values, MaxNew)
    /\ orig_in = original_dict
    /\ once = <<>>
    /\ mpc = "in"

\* merged = compare_dicts(original_dict, new_dict): the result is the mutated
\* original_dict itself
Merge ==
    /\ mpc = "in"
    /\ original_dict' = compare_dicts(original_dict, new_dict)
    /\ once' = original_dict'
    /\ mpc' = "once"
    /\ UNCHANGED <<new_dict, orig_in, convVars, logVars, apiVars, runVars>>

\* compare_dicts(merged, new_dict)
MergeAgain ==
    /\ mpc = "once"
    /\ original_dict' = compare_dicts(original_dict, new_dict)
    /\ mpc' = "twice"
    /\ UNCHANGED <<new_dict, orig_in, once, convVars, logVars, apiVars, runVars>>

NextMerge == Merge \/ MergeAgain

SpecMerge == InitMerge /\ [][NextMerge]_vars

\* the index of the last item of d whose key has the string form of key
LastWithStr(d, key) ==
    CHOOSE i \in DOMAIN d :
        /\ str(d[i][1]) = str(key)
        /\ \A j \in DOMAIN d : str(d[j][1]) = str(key) => j <= i

StrKeys(d) == {str(k) : k \in DictKeys(d)}

\* C1 as stated: the merged key set contains both key sets, every key of
\* incoming maps to incoming's value, every key only in original is unchanged.
C1_AsStated ==
    mpc = "once" =>
        /\ DictKeys(orig_in) \cup DictKeys(new_dict) \subseteq DictKeys(once)
        /\ \A k \in DictKeys(new_dict) :
              Has(once, k) /\ Get(once, k) = Get(new_dict, k)
        /\ \A k \in DictKeys(orig_in) \ DictKeys(new_dict) :
              Has(once, k) /\ Get(once, k) = Get(orig_in, k)

\* C1 (amended): the merged key set is original's keys together with the
\* string forms of incoming's keys; for every key k of incoming the merged
\* value under str(k) is the value of the last item of incoming whose key has
\* that string form; every key of original that is not the string form of a
\* key of incoming keeps its value.
C1_MergeByStringForm ==
    mpc = "once" =>
        /\ DictKeys(once) = DictKeys(orig_in) \cup StrKeys(new_dict)
        /\ \A k \in DictKeys(new_dict) :
              Get(once, str(k)) = new_dict[LastWithStr(new_dict, k)][2]
        /\ \A k \in DictKeys(orig_in) \ StrKeys(new_dict) :
              Get(once, k) = Get(orig_in, k)

\* C1 witness: a merge that stored an integer key under its string form,
\* overwrote a differing value and kept a key that only original has
C1_Witness ==
    /\ mpc = "once"
    /\ \E k \in DictKeys(new_dict) :
          /\ k.t = "int"
          /\ Has(orig_in, str(k))
          /\ Get(orig_in, str(k)) # Get(once, str(k))
    /\ \E k \in DictKeys(orig_in) \ StrKeys(new_dict) : Get(once, k) = Get(orig_in, k)

\* C7: merging the same incoming dict into the merged dict again leaves it as
\* it was: compare_dicts(compare_dicts(o, n), n) = compare_dicts(o, n).
C7_MergeIdempotent ==
    mpc = "twice" => original_dict = once

\* C7 witness: a second merge after a first one that changed original
C7_Witness ==
    /\ mpc = "twice"
    /\ once # orig_in
    /\ Len(new_dict) = MaxNew

----------------------------------------------------------------------------
(* Logger.convert_list_of_dicts_to_dict *)

\* the records of the lists: time entries with or without the field "id"
PyInts == {KInt(1), KInt(2)}
Records ==
    [id : PyInts, n : PyInts] \cup [n : PyInts]

FieldNames == {"id", "n"}

\* {d[key_name]: d for d in list_of_dicts}: the comprehension stops with a
\* KeyError at the first record without key_name; a later record replaces the
\* value stored under an equal key
RECURSIVE convert_loop(_, _, _, _)
convert_loop(result, list, name, i) ==
    IF i > Len(list) THEN [raised |-> "", result |-> result]
    ELSE IF name \notin DOMAIN list[i] THEN [raised |-> "KeyError", result |-> <<>>]
    ELSE convert_loop(SetItem(result, list[i][name], list[i]), list, name, i + 1)

\* mutant: the first record of a key is kept (a setdefault instead of a store)
RECURSIVE convert_loop_first(_, _, _, _)
convert_loop_first(result, list, name, i) ==
    IF i > Len(list) THEN [raised |-> "", result |-> result]
    ELSE IF name \notin DOMAIN list[i] THEN [raised |-> "KeyError", result |-> <<>>]
    ELSE convert_loop_first(
            IF Has(result, list[i][name]) THEN result
            ELSE SetItem(result, list[i][name], list[i]),
            list, name, i + 1)

convert_first_wins(list, name) == convert_loop_first(<<>>, list, name, 1)

convert_list_of_dicts_to_dict(list, name) == convert_loop(<<>>, list, name, 1)

----------------------------------------------------------------------------
(* Specification SpecConvert: convert_list_of_dicts_to_dict on arbitrary lists *)

InitConvert ==
    /\ IdleRun
    /\ IdleMerge
    /\ IdleLog
    /\ IdleApi
    /\ list_of_dicts \in SeqsUpTo(Records, MaxRecs)
    /\ key_name \in FieldNames
    /\ conv_out = <<>>
    /\ conv_err = ""
    /\ cpc = "in"

Convert ==
    /\ cpc = "in"
    /\ LET r == convert_list_of_dicts_to_dict(list_of_dicts, key_name)
       IN  /\ conv_out' = r.result
           /\ conv_err' = r.raised
    /\ cpc' = "done"
    /\ UNCHANGED <<list_of_dicts, key_name, mergeVars, logVars, apiVars, runVars>>

NextConvert == Convert

SpecConvert == InitConvert /\ [][NextConvert]_vars

\* C9: if every record has keyField, the result's keys are exactly the
\* keyField values of the records and each key maps to the last record that
\* carries it; if some record lacks keyField the call fails with a KeyError.
C9_RecordsToMapping ==
    cpc = "done" =>
        IF \E i \in DOMAIN list_of_dicts : key_name \notin DOMAIN list_of_dicts[i]
        THEN conv_err = "KeyError"
        ELSE /\ conv_err = ""
             /\ DictKeys(conv_out) =
                    {list_of_dicts[i][key_name] : i \in DOMAIN list_of_dicts}
             /\ \A i \in DOMAIN list_of_dicts :
                    (\A j \in DOMAIN list_of_dicts :
                        list_of_dicts[j][key_name] = list_of_dicts[i][key_name] => j <= i)
                    => Get(conv_out, list_of_dicts[i][key_name]) = list_of_dicts[i]

\* C9 witness: a conversion of a list in which two different records carry the
\* same key value
C9_Witness ==
    /\ cpc = "done"
    /\ conv_err = ""
    /\ \E i, j \in DOMAIN list_of_dicts :
          /\ i < j
          /\ list_of_dicts[i][key_name] = list_of_dicts[j][key_name]
          /\ list_of_dicts[i] # list_of_dicts[j]
          /\ Get(conv_out, list_of_dicts[j][key_name]) = list_of_dicts[j]

----------------------------------------------------------------------------
(* Logger.read_file, Logger.write_file, Logger.log *)

\* the file at file_path: absent, a JSON object, or text that is not JSON
BadFile == [kind |-> "bad", obj |-> <<>>]
JsonFile(o) == [kind |-> "json", obj |-> o]

FileNames == {"1", "False"}
LogKeys == {KInt(1), KStr("1"), KBool(FALSE)}

JsonObjects(n) ==
    {o \in SeqsUpTo(FileNames \X Values, n) :
        \A i, j \in DOMAIN o : i # j => o[i][1] # o[j][1]}

\* json.load of an object: a dict with str keys, a repeated name keeps its
\* last value
RECURSIVE json_load_from(_, _, _)
json_load_from(d, o, i) ==
    IF i > Len(o) THEN d
    ELSE json_load_from(SetItem(d, KStr(o[i][1]), o[i][2]), o, i + 1)

json_load(o) == json_load_from(<<>>, o, 1)

\* the name json.dump writes for a dict key
json_key(key) ==
    CASE key.t = "str" -> key.v
      [] key.t = "int" -> IntStr(key.v)
      [] key.t = "bool" -> IF key.v THEN "true" ELSE "false"

\* json.dump of a dict: one member per item, in order
json_dump(d) == [i \in DOMAIN d |-> <<json_key(d[i][1]), d[i][2]>>]

read_file(f) ==
    CASE f.kind = "absent" -> [raised |-> "FileNotFoundError", data |-> <<>>]
      [] f.kind = "bad" -> [raised |-> "JSONDecodeError", data |-> <<>>]
      [] f.kind = "json" -> [raised |-> "", data |-> json_load(f.obj)]

write_file(data) == JsonFile(json_dump(data))

\* mutant: no except clause, a missing file makes log fail
log_no_recover(f, data) ==
    LET r == read_file(f)
    IN  IF r.raised # "" THEN [raised |-> r.raised, file |-> f]
        ELSE [raised |-> "", file |-> write_file(compare_dicts(r.data, data))]

\* mutant: the data passed in is written instead of the merged dict
log_writes_data(f, data) ==
    LET r == read_file(f)
    IN  IF r.raised \notin {"", "FileNotFoundError"}
        THEN [raised |-> r.raised, file |-> f]
        ELSE [raised |-> "", file |-> write_file(compare_dicts(<<>>, data))]

\* mutant: every exception of read_file is caught, not only FileNotFoundError
log_recover_any(f, data) ==
    LET r == read_file(f)
        old_data == IF r.raised # "" THEN <<>> ELSE r.data
    IN  [raised |-> "", file |-> write_file(compare_dicts(old_data, data))]

\* log(file_path, data): the exception raised ("" if none) and the file left
log(f, data) ==
    LET r == read_file(f)
    IN  IF r.raised \notin {"", "FileNotFoundError"}
        THEN [raised |-> r.raised, file |-> f]
        ELSE LET old_data == IF r.raised = "FileNotFoundError" THEN <<>> ELSE r.data
                 new_data == compare_dicts(old_data, data)
             IN  [raised |-> "", file |-> write_file(new_data)]

----------------------------------------------------------------------------
(* Specification SpecLog: any sequence of calls of log on one path *)

InitLog ==
    /\ IdleRun
    /\ IdleMerge
    /\ IdleConvert
    /\ IdleApi
    /\ file \in {NoFile, BadFile} \cup {JsonFile(o) : o \in JsonObjects(MaxFile)}
    /\ prev_file = file
    /\ last_data = <<>>
    /\ prev_data = <<>>
    /\ log_raised = ""
    /\ lpc = "none"

\* the data a call of log may be given
LogData == Dicts(LogKeys, Values, MaxNew)

Log ==
    /\ lpc \in {"none", "one", "two"}
    /\ \E data \in LogData :
          LET r == log(file, data)
          IN  /\ file' = r.file
              /\ log_raised' = r.raised
              /\ last_data' = data
    /\ prev_file' = file
    /\ prev_data' = last_data
    /\ lpc' = IF lpc = "none" THEN "one" ELSE "two"
    /\ UNCHANGED <<mergeVars, convVars, apiVars, runVars>>

NextLog == Log

SpecLog == InitLog /\ [][NextLog]_vars

Names(f) == {f.obj[i][1] : i \in DOMAIN f.obj}
FileVal(f, name) == f.obj[CHOOSE i \in DOMAIN f.obj : f.obj[i][1] = name][2]

\* the keys of the items of d have pairwise distinct string forms
StrDistinct(d) == \A i, j \in DOMAIN d : i # j => str(d[i][1]) # str(d[j][1])

\* every item of d is in the file, under the string form of its key
FileHolds(f, d) ==
    \A i \in DOMAIN d :
        /\ str(d[i][1]).v \in Names(f)
        /\ FileVal(f, str(d[i][1]).v) = d[i][2]

\* what C2 says of one call of log: no key of the file is lost, and a value
\* changes only if the data carries a different value for its key
LogStepKeeps ==
    /\ Names(prev_file) \subseteq Names(file)
    /\ \A name \in Names(prev_file) :
          FileVal(file, name) # FileVal(prev_file, name) =>
              \E i \in DOMAIN last_data :
                  /\ str(last_data[i][1]) = KStr(name)
                  /\ last_data[i][2] # FileVal(prev_file, name)
                  /\ last_data[i][2] = FileVal(file, name)

\* C2 as stated: a call of log loses no key of the file and changes a value
\* only if its data carries a different one; two calls with datasets whose key
\* sets are disjoint leave a file that holds both datasets.
C2_AsStated ==
    /\ lpc \in {"one", "two"} => LogStepKeeps
    /\ (lpc = "two" /\ log_raised = ""
            /\ StrDistinct(prev_data) /\ StrDistinct(last_data)
            /\ DictKeys(prev_data) \cap DictKeys(last_data) = {})
        => FileHolds(file, prev_data) /\ FileHolds(file, last_data)

\* C2 (amended): a call of log loses no key of the file and changes a value
\* only if its data carries a different one under a key with that string form;
\* two calls that go through, with datasets whose keys all have different
\* string forms, leave a file that holds both datasets under the string forms
\* of their keys.
C2_LogKeepsKeys ==
    /\ lpc \in {"one", "two"} => LogStepKeeps
    /\ (lpc = "two" /\ log_raised = "" /\ StrDistinct(prev_data \o last_data))
        => FileHolds(file, prev_data) /\ FileHolds(file, last_data)

\* C2 witness: a second call whose data shares no string form with the first
\* call's data, after which the file holds both, and which left a value of the
\* file as it was
C2_Witness ==
    /\ lpc = "two"
    /\ log_raised = ""
    /\ prev_data # <<>>
    /\ last_data # <<>>
    /\ StrDistinct(prev_data \o last_data)
    /\ FileHolds(file, prev_data)
    /\ FileHolds(file, last_data)
    /\ Names(prev_file) # {}
    /\ Names(file) # Names(prev_file)

\* C8 as stated: log on a path with no file creates the file, and its content
\* is the data serialized to JSON and parsed back.
C8_AsStated ==
    (lpc \in {"one", "two"} /\ prev_file.kind = "absent") =>
        /\ file.kind = "json"
        /\ DictEq(json_load(file.obj), json_load(json_dump(last_data)))

\* C8 (amended): log on a path with no file creates the file; its content maps
\* the string form of every key of the data to the value of the last item
\* whose key has that string form, and holds no other key; when the keys of
\* the data are strings and integers this is the data serialized to JSON and
\* parsed back.
C8_LogCreatesFile ==
    (lpc \in {"one", "two"} /\ prev_file.kind = "absent") =>
        /\ file.kind = "json"
        /\ log_raised = ""
        /\ Names(file) = {str(k).v : k \in DictKeys(last_data)}
        /\ \A k \in DictKeys(last_data) :
              FileVal(file, str(k).v) = last_data[LastWithStr(last_data, k)][2]
        /\ (\A k \in DictKeys(last_data) : k.t # "bool")
              => DictEq(json_load(file.obj), json_load(json_dump(last_data)))

\* C8 witness: a file created from data in which an integer key and a string
\* key have the same string form
C8_Witness ==
    /\ lpc = "one"
    /\ prev_file.kind = "absent"
    /\ file.kind = "json"
    /\ \E i, j \in DOMAIN last_data :
          /\ i < j
          /\ last_data[i][1].t = "int"
          /\ str(last_data[i][1]) = last_data[j][1]
          /\ last_data[i][2] # last_data[j][2]
          /\ FileVal(file, last_data[j][1].v) = last_data[j][2]

----------------------------------------------------------------------------
(* BaseAPI._get, BaseAPI._post *)

\* the status _get and _post accept
StatusOK == 200

\* what the server answers: a response with a status, or nothing within the
\* timeout
Statuses == {200, 204, 404, 500}
Timeout == [kind |-> "timeout", status |-> 0, text |-> "", body |-> <<>>]
Response(status, body) ==
    [kind |-> "response", status |-> status, text |-> "body", body |-> body]

\* the outcome of a request: the exception raised ("" if none), the status
\* and body text its message carries, and the value returned
Raise(type, status, text) ==
    [raised |-> type, status |-> status, text |-> text, value |-> <<>>]
Return(value) == [raised |-> "", status |-> 0, text |-> "", value |-> value]

\* requests.get(..., timeout=10), the status test and response.json()
_get(resp) ==
    IF resp.kind = "timeout" THEN Raise("Timeout", 0, "")
    ELSE IF resp.status # StatusOK
         THEN Raise("RequestException", resp.status, resp.text)
         ELSE Return(resp.body)

\* requests.post(..., timeout=15), the status test and response.json()
_post(resp) ==
    IF resp.kind = "timeout" THEN Raise("Timeout", 0, "")
    ELSE IF resp.status # StatusOK
         THEN Raise("RequestException", resp.status, resp.text)
         ELSE Return(resp.body)

\* the record of one exchange: the method, the response, what was raised
Exchange(method, resp, out) ==
    [method |-> method, kind |-> resp.kind, status |-> resp.status,
     raised |-> out.raised, err_status |-> out.status, err_text |-> out.text]

----------------------------------------------------------------------------
(* BaseAPI.get_workspace_id_from_name *)

WorkspaceNames == {"Home", "home"}
Workspaces == [name : WorkspaceNames, id : 0..2]

\* the first workspace of the list with the name, 0 if there is none
FirstNamed(list, name) ==
    IF \E i \in DOMAIN list : list[i].name = name
    THEN CHOOSE i \in DOMAIN list :
            /\ list[i].name = name
            /\ \A j \in DOMAIN list : list[j].name = name => i <= j
    ELSE 0

\* workspace_id stays None without a match; "if workspace_id:" is false for
\* None and for 0
get_workspace_id_from_name(resp, name) ==
    LET got == _get(resp)
    IN  IF got.raised # "" THEN [raised |-> got.raised, id |-> 0]
        ELSE LET i == FirstNamed(got.value, name)
             IN  IF i # 0 /\ got.value[i].id # 0
                 THEN [raised |-> "", id |-> got.value[i].id]
                 ELSE [raised |-> "ValueError", id |-> 0]

----------------------------------------------------------------------------
(* Specification SpecResolve: one call of get_workspace_id_from_name *)

InitResolve ==
    /\ IdleRun
    /\ IdleMerge
    /\ IdleConvert
    /\ IdleLog
    /\ IdleHttp
    /\ IdleProj
    /\ ws_resp \in {Timeout} \cup {Response(404, <<>>)}
                    \cup {Response(200, l) : l \in SeqsUpTo(Workspaces, MaxWs)}
    /\ workspace_name \in WorkspaceNames
    /\ ws_result = [raised |-> "", id |-> 0]
    /\ wpc = "in"

Resolve ==
    /\ wpc = "in"
    /\ ws_result' = get_workspace_id_from_name(ws_resp, workspace_name)
    /\ wpc' = "done"
    /\ UNCHANGED <<ws_resp, workspace_name, mergeVars, convVars, logVars, httpVars, projVars, runVars>>

NextResolve == Resolve

SpecResolve == InitResolve /\ [][NextResolve]_vars

\* C6: when the list holds a workspace with exactly the name, the id of the
\* first such workspace is returned; the call fails with the not-found error
\* exactly when the list holds none.
C6_AsStated ==
    (wpc = "done" /\ ws_resp.kind = "response" /\ ws_resp.status = 200) =>
        LET i == FirstNamed(ws_resp.body, workspace_name)
        IN  IF i # 0
            THEN ws_result.raised = "" /\ ws_result.id = ws_resp.body[i].id
            ELSE ws_result.raised = "ValueError"

----------------------------------------------------------------------------
(* TogglProjectAPI.get_time_entries, create_toggl_time_entry, get_tags,    *)
(* delete_tags                                                             *)

TagNames == {"t1", "t2"}
Tags == [name : TagNames, id : {7}]

\* the outcome of an operation: what it raised, its exchanges, its value
Outcome(raised, exchanges, value) ==
    [raised |-> raised, http |-> exchanges, value |-> value]

get_time_entries(resp) ==
    LET got == _get(resp)
    IN  Outcome(got.raised, <<Exchange("GET", resp, got)>>, got.value)

create_toggl_time_entry(resp) ==
    LET got == _post(resp)
    IN  Outcome(got.raised, <<Exchange("POST", resp, got)>>, got.value)

\* tags[tag_name] = tag for every tag of the response
RECURSIVE tags_by_name_from(_, _, _)
tags_by_name_from(tags, list, i) ==
    IF i > Len(list) THEN tags
    ELSE tags_by_name_from(SetItem(tags, list[i].name, list[i]), list, i + 1)

get_tags(resp) ==
    LET got == _get(resp)
    IN  Outcome(got.raised, <<Exchange("GET", resp, got)>>,
                IF got.raised = "" THEN tags_by_name_from(<<>>, got.value, 1) ELSE <<>>)

\* the tags of tags_by_name whose name is among the names given, in order
Matching(tags_by_name, names) ==
    SelectSeq(tags_by_name, LAMBDA item : item[1] \in names)

\* requests.delete(...) for every matching tag: the response is stored as it
\* comes, no status is tested and nothing is raised
delete_tags(resp, names, dels) ==
    LET got == get_tags(resp)
    IN  IF got.raised # "" THEN got
        ELSE LET hit == Matching(got.value, names)
             IN  Outcome("",
                    got.http \o [k \in DOMAIN hit |->
                                    Exchange("DELETE", Response(dels[k], <<>>), Return(<<>>))],
                    [k \in DOMAIN hit |-> <<hit[k][1], dels[k]>>])

----------------------------------------------------------------------------
(* Specification SpecHttp: the operations of a constructed client that call *)
(* the API                                                                  *)

TagResponses ==
    {Timeout} \cup {Response(s, <<>>) : s \in Statuses \ {StatusOK}}
        \cup {Response(StatusOK, l) : l \in SeqsUpTo(Tags, MaxTags)}

PlainResponses == {Timeout} \cup {Response(s, <<>>) : s \in Statuses}

InitHttp ==
    /\ IdleRun
    /\ IdleMerge
    /\ IdleConvert
    /\ IdleLog
    /\ IdleWs
    /\ IdleProj
    /\ http = <<>>
    /\ op_raised = ""
    /\ op_in = <<>>
    /\ hpc = "ready"

Did(op, args, out) ==
    /\ hpc' = op
    /\ op_in' = args
    /\ http' = out.http
    /\ op_raised' = out.raised
    /\ UNCHANGED <<mergeVars, convVars, logVars, wsVars, projVars, runVars>>

GetTimeEntries ==
    /\ hpc # "idle"
    /\ \E resp \in PlainResponses :
          Did("get_time_entries", <<resp>>, get_time_entries(resp))

CreateTimeEntry ==
    /\ hpc # "idle"
    /\ \E resp \in PlainResponses :
          Did("create_toggl_time_entry", <<resp>>, create_toggl_time_entry(resp))

GetTags ==
    /\ hpc # "idle"
    /\ \E resp \in TagResponses : Did("get_tags", <<resp>>, get_tags(resp))

\* the number of DELETE requests delete_tags makes
Deletes(resp, names) ==
    IF get_tags(resp).raised = "" THEN Len(Matching(get_tags(resp).value, names)) ELSE 0

DeleteTagsWith(resp) ==
    \E names \in SUBSET TagNames :
        \E dels \in [1..Deletes(resp, names) -> Statuses] :
            Did("delete_tags", <<resp, names, dels>>, delete_tags(resp, names, dels))

\* the tags are listed and the matching ones deleted, or listing them fails
DeleteTags ==
    /\ hpc # "idle"
    /\ \/ \E l \in SeqsUpTo(Tags, MaxTags) : DeleteTagsWith(Response(StatusOK, l))
       \/ \E resp \in TagResponses :
             /\ resp.kind = "timeout" \/ resp.status # StatusOK
             /\ DeleteTagsWith(resp)

NextHttp == DeleteTags \/ GetTags \/ GetTimeEntries \/ CreateTimeEntry

SpecHttp == InitHttp /\ [][NextHttp]_vars

\* C5: every exchange that got a response raises exactly when the status is
\* not a 2xx status, and the exception raised carries the status and the body.
C5_AsStated ==
    \A i \in DOMAIN http :
        http[i].kind = "response" =>
            /\ http[i].raised # "" <=> http[i].status \notin 200..299
            /\ http[i].raised # "" =>
                  http[i].err_status = http[i].status /\ http[i].err_text = "body"

----------------------------------------------------------------------------
(* TogglProjectAPI.__init__, _set_class_projects, create_generic_project *)

\* str.lower() on the names used
Lower(s) ==
    CASE s = "Work" -> "work"
      [] s = "Play" -> "play"
      [] s = "Red" -> "red"
      [] OTHER -> s

ProjectPool == {[name |-> "Work", id |-> 1], [name |-> "work", id |-> 2]}
ProjectNames == {"Work", "Play"}

\* the value None
None == "None"

\* the colors of the palette of create_generic_project the model uses
Palette == [blue |-> "#0b83d9", orange |-> "#e36a00", red |-> "#a0312a"]

\* colors.get(name, default)
ColorOf(name, default) == IF name \in DOMAIN Palette THEN Palette[name] ELSE default

ColorArgs == {None, "Red", "mauve"}

\* self.new_project_template as __init__ sets it (the fields that are None and
\* stay None are left out, but for color and name)
TemplateDefaults ==
    [active |-> TRUE, color |-> None, is_private |-> TRUE, name |-> None,
     recurring |-> FALSE]

\* toggl_projects[project["name"].lower()] = project for every project
RECURSIVE projects_from(_, _, _)
projects_from(toggl_projects, list, i) ==
    IF i > Len(list) THEN toggl_projects
    ELSE projects_from(SetItem(toggl_projects, Lower(list[i].name), list[i]), list, i + 1)

\* _set_class_projects: self.projects is assigned after the GET succeeded
_set_class_projects(old, resp) ==
    LET got == _get(resp)
    IN  IF got.raised # "" THEN [raised |-> got.raised, projects |-> old]
        ELSE [raised |-> "", projects |-> projects_from(<<>>, got.value, 1)]

\* create_generic_project: new_project is self.new_project_template itself,
\* not a copy, so the name and the color are stored into the template; the
\* result is not stored into self.projects
create_generic_project(cache, template, project_name, color, is_kpi, resp) ==
    IF Has(cache, Lower(project_name))
    THEN [raised |-> "", kind |-> "cached", template |-> template, post |-> <<>>]
    ELSE LET named == [template EXCEPT !.name = project_name]
             colored == IF color # None
                        THEN [named EXCEPT !.color = ColorOf(Lower(color), Palette.blue)]
                        ELSE named
             new_project == IF is_kpi
                            THEN [colored EXCEPT !.color = ColorOf("orange", Palette.orange)]
                            ELSE colored
             got == _post(resp)
         IN  [raised |-> got.raised, kind |-> "posted", template |-> new_project,
              post |-> <<[name_arg |-> project_name, color_arg |-> color,
                          is_kpi |-> is_kpi, payload |-> new_project,
                          raised |-> got.raised]>>]

----------------------------------------------------------------------------
(* Specification SpecProjects: a constructed client, its project cache and *)
(* the create calls it makes                                                *)

ProjectResponses ==
    {Timeout} \cup {Response(s, <<>>) : s \in Statuses \ {StatusOK}}
        \cup {Response(StatusOK, l) : l \in SeqsUpTo(ProjectPool, MaxProj)}

\* the client after TogglProjectAPI() succeeded
InitProjects ==
    /\ IdleRun
    /\ IdleMerge
    /\ IdleConvert
    /\ IdleLog
    /\ IdleWs
    /\ IdleHttp
    /\ \E resp \in ProjectResponses :
          /\ _set_class_projects(<<>>, resp).raised = ""
          /\ projects = _set_class_projects(<<>>, resp).projects
    /\ new_project_template = TemplateDefaults
    /\ posted = <<>>
    /\ proj_return = ""
    /\ ppc = "ready"

CreateGenericProject ==
    /\ ppc = "ready"
    /\ Len(posted) < MaxPosts
    /\ \E project_name \in ProjectNames, color \in ColorArgs, is_kpi \in BOOLEAN,
          resp \in PlainResponses :
          LET r == create_generic_project(projects, new_project_template,
                                          project_name, color, is_kpi, resp)
          IN  /\ new_project_template' = r.template
              /\ posted' = posted \o r.post
              /\ proj_return' = IF r.raised # "" THEN r.raised ELSE r.kind
    /\ UNCHANGED <<projects, ppc, mergeVars, convVars, logVars, wsVars, httpVars, runVars>>

SetClassProjects ==
    /\ ppc = "ready"
    /\ \E resp \in ProjectResponses :
          LET r == _set_class_projects(projects, resp)
          IN  /\ projects' = r.projects
              /\ proj_return' = IF r.raised # "" THEN r.raised ELSE "listed"
    /\ UNCHANGED <<new_project_template, posted, ppc,
                   mergeVars, convVars, logVars, wsVars, httpVars, runVars>>

NextProjects == CreateGenericProject \/ SetClassProjects

SpecProjects == InitProjects /\ [][NextProjects]_vars

\* C3: after a create call for a name went through, a later call of
\* create_generic_project with the same name posts nothing: of the calls with
\* one name, one posts.
C3_AsStated ==
    \A i, j \in DOMAIN posted :
        (i < j /\ posted[i].raised = "")
            => Lower(posted[i].name_arg) # Lower(posted[j].name_arg)

\* C10: the payload of a call given no color and no KPI flag has no color, and
\* every payload carries the name given and the template's defaults in its
\* other fields.
C10_AsStated ==
    \A i \in DOMAIN posted :
        /\ (posted[i].color_arg = None /\ ~posted[i].is_kpi)
              => posted[i].payload.color = None
        /\ posted[i].payload.name = posted[i].name_arg
        /\ posted[i].payload.active = TemplateDefaults.active
        /\ posted[i].payload.is_private = TemplateDefaults.is_private
        /\ posted[i].payload.recurring = TemplateDefaults.recurring

----------------------------------------------------------------------------
(* main.log_toggl_time_entries *)

\* TOGGL_HOME_WORKSPACE_NAME as configured
HomeWorkspace == "Home"

\* the files time_entries.json may be when a run starts: its values are time
\* entries logged before
RunObjects(n) ==
    {o \in SeqsUpTo({"1", "2"} \X [id : PyInts, n : PyInts], n) :
        \A i, j \in DOMAIN o : i # j => o[i][1] # o[j][1]}

RunFiles == {NoFile, BadFile} \cup {JsonFile(o) : o \in RunObjects(MaxFile)}

WorkspaceResponses ==
    {Timeout} \cup {Response(s, <<>>) : s \in Statuses \ {StatusOK}}
        \cup {Response(StatusOK, l) : l \in SeqsUpTo(Workspaces, MaxWs)}

EntryResponses ==
    {Timeout} \cup {Response(s, <<>>) : s \in Statuses \ {StatusOK}}
        \cup {Response(StatusOK, l) : l \in SeqsUpTo(Records, MaxRecs)}

----------------------------------------------------------------------------
(* Specification SpecRun: one run of the entry routine, step by step *)

InitRun ==
    /\ IdleMerge
    /\ IdleConvert
    /\ IdleLog
    /\ IdleApi
    /\ rpc = "start"
    /\ run_file \in RunFiles
    /\ run_file0 = run_file
    /\ run_ok = {}
    /\ run_raised = ""
    /\ time_entries = <<>>
    /\ standard_time_entries = <<>>

\* a step of the run went through, or raised and ended the run
Proceed(step, next) ==
    /\ rpc' = next
    /\ run_ok' = run_ok \cup {step}
    /\ run_raised' = ""

Abort(raised) ==
    /\ rpc' = "aborted"
    /\ run_ok' = run_ok
    /\ run_raised' = raised

\* dataset_path = os.environ["DATASET_PATH"]
RunConfig ==
    /\ rpc = "start"
    /\ \E is_set \in BOOLEAN :
          IF is_set THEN Proceed("config", "configured") ELSE Abort("KeyError")
    /\ UNCHANGED <<run_file, run_file0, time_entries, standard_time_entries,
                   mergeVars, convVars, logVars, apiVars>>

\* TogglProjectAPI(): BaseAPI.__init__ resolves the home workspace
RunResolveWorkspace ==
    /\ rpc = "configured"
    /\ \E resp \in WorkspaceResponses :
          LET r == get_workspace_id_from_name(resp, HomeWorkspace)
          IN  IF r.raised = "" THEN Proceed("resolve", "resolved") ELSE Abort(r.raised)
    /\ UNCHANGED <<run_file, run_file0, time_entries, standard_time_entries,
                   mergeVars, convVars, logVars, apiVars>>

\* TogglProjectAPI(): _set_class_projects lists the projects
RunListProjects ==
    /\ rpc = "resolved"
    /\ \E resp \in ProjectResponses :
          LET r == _set_class_projects(<<>>, resp)
          IN  IF r.raised = "" THEN Proceed("list", "listed") ELSE Abort(r.raised)
    /\ UNCHANGED <<run_file, run_file0, time_entries, standard_time_entries,
                   mergeVars, convVars, logVars, apiVars>>

\* toggl.get_time_entries(params)
RunFetch ==
    /\ rpc = "listed"
    /\ \E resp \in EntryResponses :
          LET r == get_time_entries(resp)
          IN  IF r.raised = ""
              THEN Proceed("fetch", "fetched") /\ time_entries' = r.value
              ELSE Abort(r.raised) /\ time_entries' = time_entries
    /\ UNCHANGED <<run_file, run_file0, standard_time_entries,
                   mergeVars, convVars, logVars, apiVars>>

\* logger.convert_list_of_dicts_to_dict(time_entries, "id")
RunConvert ==
    /\ rpc = "fetched"
    /\ LET r == convert_list_of_dicts_to_dict(time_entries, "id")
       IN  IF r.raised = ""
           THEN Proceed("convert", "converted") /\ standard_time_entries' = r.result
           ELSE Abort(r.raised) /\ standard_time_entries' = standard_time_entries
    /\ UNCHANGED <<run_file, run_file0, time_entries,
                   mergeVars, convVars, logVars, apiVars>>

\* logger.log(<DATASET_PATH>/time_entries.json, standard_time_entries)
RunLog ==
    /\ rpc = "converted"
    /\ LET r == log(run_file, standard_time_entries)
       IN  /\ run_file' = r.file
           /\ IF r.raised = "" THEN Proceed("log", "done") ELSE Abort(r.raised)
    /\ UNCHANGED <<run_file0, time_entries, standard_time_entries,
                   mergeVars, convVars, logVars, apiVars>>

NextRun ==
    \/ RunConfig
    \/ RunResolveWorkspace
    \/ RunListProjects
    \/ RunFetch
    \/ RunConvert
    \/ RunLog

SpecRun == InitRun /\ [][NextRun]_vars

\* C4: the file differs from what it was only in a run in which workspace
\* resolution, project listing, the fetch and the read of the file went
\* through; a run that aborted left the file as it was; a run that found
\* text that is not JSON in the file aborts and leaves it; a run that found no
\* file and whose other steps went through ends with the file created from
\* the fetched entries alone.
C4_RunWritesLast ==
    /\ run_file # run_file0 =>
          /\ rpc = "done"
          /\ {"resolve", "list", "fetch", "convert"} \subseteq run_ok
          /\ run_file0.kind # "bad"
    /\ rpc = "aborted" => run_file = run_file0 /\ run_raised # ""
    /\ run_file0.kind = "bad" => rpc # "done" /\ run_file = run_file0
    /\ rpc = "done" =>
          /\ run_file.kind = "json"
          /\ {"resolve", "list", "fetch", "convert"} \subseteq run_ok
          /\ run_file0.kind = "absent" =>
                Names(run_file) = {str(k).v : k \in DictKeys(standard_time_entries)}

\* C4 witness: a run that fetched entries, found text that is not JSON in the
\* file, aborted and left the file as it was
C4_Witness ==
    /\ rpc = "aborted"
    /\ run_raised = "JSONDecodeError"
    /\ standard_time_entries # <<>>
    /\ run_file = run_file0
    /\ run_file0.kind = "bad"

====
